---- MODULE Spec2Model ----
(***************************************************************************)
(* A model of the TimeTracker Pro application: the Home component's state  *)
(* (projects, time entries, current entry) and its localStorage effects,   *)
(* the Timer, ProjectSelector and TimeEntryHistory handlers and the series *)
(* of PerformanceCharts.                                                   *)
(*                                                                         *)
(* Times are counted since the epoch (Date.now()) in clock units of        *)
(* ClockUnit milliseconds; an ISO timestamp is modelled by the time it     *)
(* denotes and a calendar-day string                                       *)
(* (YYYY-MM-DD, UTC) by its day number, whose numeric order is the lexical *)
(* order of the zero-padded string.  An id is the number whose decimal     *)
(* digits form the id string.                                              *)
(***************************************************************************)
EXTENDS Integers, Sequences, FiniteSets, TLC

VARIABLES
    now,              \* the wall clock, Date.now()
    ticks,            \* how many times the model has advanced the clock
    phase,            \* "mounting" | "loaded" | "flushed" | "ready"
    saved,            \* savedProjects, savedEntries, savedCurrentEntry of the load effect
    pending,          \* state updates queued by the load effect, applied at re-render
    projects,         \* Home: useState<Project[]>
    timeEntries,      \* Home: useState<TimeEntry[]>
    currentEntry,     \* Home: useState<TimeEntry | null>
    store,            \* localStorage: the three timesheet-* slots
    selectedProject,  \* Timer: useState<string>('')
    currentTime,      \* Timer: useState(0), the displayed seconds
    currentPage,      \* TimeEntryHistory: useState(1)
    filterProject,    \* TimeEntryHistory: useState('all')
    filterDateFrom,   \* TimeEntryHistory: useState('')
    filterDateTo,     \* TimeEntryHistory: useState('')
    entriesAtStart,   \* history variable: the durable list when the session last left Idle,
                      \* while only timer, project and clock steps have followed
    refused,          \* history variable: the start or stop request the last operation
                      \* declined to act on, "" otherwise
    abandoned,        \* history variable: the ids of the staged entries a start replaced
    atReload,         \* history variable: the entry that was running at the last reload,
                      \* and the clock then
    ops               \* how many user operations the model has taken

vars == << now, ticks, phase, saved, pending, projects, timeEntries, currentEntry,
           store, selectedProject, currentTime, currentPage, filterProject,
           filterDateFrom, filterDateTo, entriesAtStart, refused, abandoned, atReload,
           ops >>

homeVars == << projects, timeEntries, currentEntry, store >>
historyVars == << currentPage, filterProject, filterDateFrom, filterDateTo >>
mountVars == << phase, saved, pending >>
clockVars == << now, ticks >>
traceVars == << abandoned, atReload >>

-----------------------------------------------------------------------------
(* Bounds of the model *)

MaxOps == 10
MaxTicks == 2
MaxProjects == 3
MaxHistoryEntries == 21
MaxHistoryOps == 1
MaxPage == 4
MaxHomeEntries == 3
MaxHomeOps == 4
MaxChartEntries == 33
MaxChartOps == 2

(* Program constants *)

SecMs == 1000
DayMs == 86400000
itemsPerPage == 10

(* The clock of the model: the milliseconds one clock unit stands for, a     *)
(* second and a day in clock units, and a number of milliseconds in clock    *)
(* units                                                                     *)

ClockUnit == 500
Second == SecMs \div ClockUnit
Day == DayMs \div ClockUnit
clock(n) == n \div ClockUnit

-----------------------------------------------------------------------------
(* JavaScript values *)

\* null, '' and 'all' (an absent value) are the empty sequence; a present value is <<v>>
None == << >>
Some(x) == << x >>

\* a number | NaN | undefined (a missing key) | null
Num(n) == [k |-> "num", v |-> n]
NaN == [k |-> "nan", v |-> 0]
Undefined == [k |-> "undefined", v |-> 0]
JsNull == [k |-> "null", v |-> 0]

IsNum(x) == x.k = "num"

\* ToBoolean: 0, NaN, undefined and null are falsy
Truthy(x) == x.k = "num" /\ x.v # 0

\* a || b
JsOr(a, b) == IF Truthy(a) THEN a ELSE b

\* a * n and a + b on numbers, NaN absorbing
JsMul(a, n) == IF IsNum(a) THEN Num(a.v * n) ELSE NaN
JsAdd(a, b) == IF IsNum(a) /\ IsNum(b) THEN Num(a.v + b.v) ELSE NaN

\* parseInt on the strings the edit fields hold: '' gives NaN
parseInt(s) ==
    CASE s = "0" -> Num(0)
      [] s = "1" -> Num(1)
      [] s = "2" -> Num(2)
      [] s = "30" -> Num(30)
      [] OTHER -> NaN

\* String.prototype.trim on the names the model types
trim(s) ==
    CASE s = " Design " -> "Design"
      [] s = "   " -> ""
      [] OTHER -> s

\* Math.floor(ms / 1000) for ms >= 0
floorSeconds(ms) == ms \div Second

\* new Date(ms).toISOString().split('T')[0], as a day number
isoDate(ms) == ms \div Day

-----------------------------------------------------------------------------
(* JSON.stringify / JSON.parse.  A slot holds the value its text denotes:   *)
(* stringify writes NaN as null and omits an undefined key.                 *)

stringifyEntry(e) ==
    [e EXCEPT !.editedDuration = IF @.k = "nan" THEN JsNull ELSE @]

stringifyEntries(es) == [i \in 1..Len(es) |-> stringifyEntry(es[i])]

\* a project holds strings only: its text denotes the same record
stringifyProjects(ps) == ps

JSONparse(text) == text

-----------------------------------------------------------------------------
(* Inputs the model types and the clock steps it takes *)

\* 90.5 s pass between two operations, or none
TickSteps == {clock(90500)}

\* the rows of a list the model clicks on
RowInputs == {1, 2}

NameInputs == {" Design ", "   "}
ColorInputs == {"#EF4444"}

\* hours, minutes, seconds as typed in the edit dialog
EditInputs == { <<"0", "2", "0">>, <<"0", "0", "0">>, <<"", "0", "0">> }

emptySlots == [projects |-> None, entries |-> None, current |-> None]

defaultProjects(t) ==
    << [id |-> 1, name |-> "Software Engineering", color |-> "#3B82F6", createdAt |-> t],
       [id |-> 2, name |-> "UI/UX Design", color |-> "#10B981", createdAt |-> t],
       [id |-> 3, name |-> "Project Management", color |-> "#F97316", createdAt |-> t] >>

-----------------------------------------------------------------------------
(* Derived reads *)

Running == currentEntry # None /\ currentEntry[1].isRunning
Stopped == currentEntry # None /\ ~currentEntry[1].isRunning
Idle == currentEntry = None

\* entry.editedDuration || entry.duration
effectiveDuration(entry) == JsOr(entry.editedDuration, Num(entry.duration)).v

\* projects.find(p => p.id === id): the first match, or none
findProject(ps, id) ==
    LET hits == SelectSeq(ps, LAMBDA p : p.id = id)
    IN  IF hits = << >> THEN None ELSE Some(hits[1])

\* getProjectColor: project?.color || '#6B7280'
getProjectColor(ps, projectId) ==
    LET project == findProject(ps, projectId)
    IN  IF project # None /\ project[1].color # "" THEN project[1].color ELSE "#6B7280"

-----------------------------------------------------------------------------
(* The save effects of Home *)

saveProjectsEffect(s, ps) == [s EXCEPT !.projects = Some(stringifyProjects(ps))]

saveEntriesEffect(s, es) == [s EXCEPT !.entries = Some(stringifyEntries(es))]

\* a save effect that never removes the key
saveCurrentEntryEffectKeeping(s, ce) ==
    IF ce # None
    THEN [s EXCEPT !.current = Some(stringifyEntry(ce[1]))]
    ELSE s

saveCurrentEntryEffect(s, ce) ==
    IF ce # None
    THEN [s EXCEPT !.current = Some(stringifyEntry(ce[1]))]
    ELSE [s EXCEPT !.current = None]

\* the Timer effect on [currentEntry]: a running entry only arms the interval
timerEffect(ce, shown) ==
    IF ce # None /\ ce[1].isRunning THEN shown
    ELSE IF ce # None THEN effectiveDuration(ce[1])
    ELSE 0

-----------------------------------------------------------------------------
Init ==
    /\ now = Day
    /\ ticks = 0
    /\ phase = "mounting"
    /\ saved = emptySlots
    /\ pending = emptySlots
    /\ projects = << >>
    /\ timeEntries = << >>
    /\ currentEntry = None
    /\ store = emptySlots
    /\ selectedProject = None
    /\ currentTime = 0
    /\ currentPage = 1
    /\ filterProject = None
    /\ filterDateFrom = None
    /\ filterDateTo = None
    /\ entriesAtStart = None
    /\ refused = ""
    /\ abandoned = {}
    /\ atReload = None
    /\ ops = 0

-----------------------------------------------------------------------------
(* Mounting: the load effect, the save effects on the initial state, and the *)
(* re-render that applies the loaded state and runs the save effects again   *)

\* a load effect that also installs the defaults over an empty saved list
loadEffectDefaultsOverEmpty ==
    /\ phase = "mounting"
    /\ saved' = store
    /\ pending' =
         [projects |-> IF store.projects # None /\ store.projects[1] # << >>
                       THEN Some(JSONparse(store.projects[1]))
                       ELSE Some(defaultProjects(now)),
          entries |-> IF store.entries # None
                      THEN Some(JSONparse(store.entries[1])) ELSE None,
          current |-> IF store.current # None
                      THEN Some(JSONparse(store.current[1])) ELSE None]
    /\ store' = IF store.projects # None /\ store.projects[1] # << >> THEN store
                ELSE [store EXCEPT !.projects = Some(stringifyProjects(defaultProjects(now)))]
    /\ phase' = "loaded"
    /\ UNCHANGED << projects, timeEntries, currentEntry, selectedProject, currentTime,
                    entriesAtStart >>
    /\ UNCHANGED << clockVars, historyVars, refused, traceVars, ops >>

loadEffect ==
    /\ phase = "mounting"
    /\ saved' = store
    /\ pending' =
         [projects |-> IF store.projects # None
                       THEN Some(JSONparse(store.projects[1]))
                       ELSE Some(defaultProjects(now)),
          entries |-> IF store.entries # None
                      THEN Some(JSONparse(store.entries[1])) ELSE None,
          current |-> IF store.current # None
                      THEN Some(JSONparse(store.current[1])) ELSE None]
    /\ store' = IF store.projects # None THEN store
                ELSE [store EXCEPT !.projects = Some(stringifyProjects(defaultProjects(now)))]
    /\ phase' = "loaded"
    /\ UNCHANGED << projects, timeEntries, currentEntry, selectedProject, currentTime,
                    entriesAtStart >>
    /\ UNCHANGED << clockVars, historyVars, refused, traceVars, ops >>

mountSaveEffects ==
    /\ phase = "loaded"
    /\ store' = saveCurrentEntryEffect(
                    saveEntriesEffect(saveProjectsEffect(store, projects), timeEntries),
                    currentEntry)
    /\ phase' = "flushed"
    /\ UNCHANGED << saved, pending, projects, timeEntries, currentEntry, selectedProject,
                    currentTime, entriesAtStart >>
    /\ UNCHANGED << clockVars, historyVars, refused, traceVars, ops >>

rerender ==
    /\ phase = "flushed"
    /\ projects' = pending.projects[1]
    /\ timeEntries' = IF pending.entries # None THEN pending.entries[1] ELSE timeEntries
    /\ currentEntry' = IF pending.current # None THEN Some(pending.current[1]) ELSE currentEntry
    /\ store' =
         LET s1 == saveProjectsEffect(store, projects')
             s2 == IF pending.entries # None THEN saveEntriesEffect(s1, timeEntries') ELSE s1
         IN  IF pending.current # None THEN saveCurrentEntryEffect(s2, currentEntry') ELSE s2
    /\ currentTime' = IF pending.current # None
                      THEN timerEffect(currentEntry', currentTime) ELSE currentTime
    /\ phase' = "ready"
    /\ saved' = emptySlots
    /\ pending' = emptySlots
    /\ UNCHANGED << selectedProject, entriesAtStart >>
    /\ UNCHANGED << clockVars, historyVars, refused, traceVars, ops >>

\* the page is loaded again: component state starts over, localStorage stays
reload ==
    /\ phase = "ready"
    /\ phase' = "mounting"
    /\ projects' = << >>
    /\ timeEntries' = << >>
    /\ currentEntry' = None
    /\ selectedProject' = None
    /\ currentTime' = 0
    /\ currentPage' = 1
    /\ filterProject' = None
    /\ filterDateFrom' = None
    /\ filterDateTo' = None
    /\ entriesAtStart' = None
    /\ refused' = ""
    /\ atReload' = IF Running THEN Some([session |-> currentEntry, at |-> now]) ELSE None
    /\ UNCHANGED << saved, pending, store, clockVars, abandoned >>

-----------------------------------------------------------------------------
(* Home: the operations handed to the components *)

\* addProject: setProjects([...projects, newProject])
addProjectList(ps, name, color, t) ==
    Append(ps, [id |-> t, name |-> name, color |-> color, createdAt |-> t])

addProject(name, color) ==
    /\ projects' = addProjectList(projects, name, color, now)
    /\ store' = saveProjectsEffect(store, projects')
    /\ UNCHANGED << timeEntries, currentEntry >>

\* updateProject: projects.map(p => p.id === id ? { ...p, name, color } : p)
updateProjectList(ps, id, name, color) ==
    [i \in 1..Len(ps) |->
        IF ps[i].id = id THEN [ps[i] EXCEPT !.name = name, !.color = color] ELSE ps[i]]

\* a propagation that forgets to compare the project id
updateProjectEntriesAll(es, id, name) ==
    [i \in 1..Len(es) |-> [es[i] EXCEPT !.projectName = name]]

\* updateProject: entries.map(entry => entry.projectId === id ? {...entry, projectName: name} : entry)
updateProjectEntries(es, id, name) ==
    [i \in 1..Len(es) |->
        IF es[i].projectId = id THEN [es[i] EXCEPT !.projectName = name] ELSE es[i]]

updateProject(id, name, color) ==
    /\ projects' = updateProjectList(projects, id, name, color)
    /\ timeEntries' = updateProjectEntries(timeEntries, id, name)
    /\ store' = saveEntriesEffect(saveProjectsEffect(store, projects'), timeEntries')
    /\ UNCHANGED currentEntry

\* deleteProject: projects.filter(p => p.id !== id)
deleteProjectList(ps, id) == SelectSeq(ps, LAMBDA p : p.id # id)

\* a deleteProject that also drops the project's entries
deleteProjectCascade(id) ==
    /\ projects' = deleteProjectList(projects, id)
    /\ timeEntries' = SelectSeq(timeEntries, LAMBDA e : e.projectId # id)
    /\ store' = saveEntriesEffect(saveProjectsEffect(store, projects'), timeEntries')
    /\ UNCHANGED currentEntry

deleteProject(id) ==
    /\ projects' = deleteProjectList(projects, id)
    /\ store' = saveProjectsEffect(store, projects')
    /\ UNCHANGED << timeEntries, currentEntry >>

\* startTimer: the new entry
newEntry(project, t) ==
    [id |-> t,
     projectId |-> project.id,
     projectName |-> project.name,
     startTime |-> t,
     endTime |-> JsNull,
     duration |-> 0,
     date |-> isoDate(t),
     isRunning |-> TRUE,
     editedDuration |-> Undefined]

\* a startTimer that does not test what find returned
startTimerUnchecked(projectId) ==
    LET project == findProject(projects, projectId)
        found == IF project = None THEN [id |-> projectId, name |-> ""] ELSE project[1]
    IN  /\ currentEntry' = Some(newEntry(found, now))
        /\ store' = saveCurrentEntryEffect(store, currentEntry')
        /\ currentTime' = timerEffect(currentEntry', currentTime)
        /\ UNCHANGED << projects, timeEntries >>

\* a startTimer that first commits the entry it replaces
startTimerCommitting(projectId) ==
    LET project == findProject(projects, projectId)
    IN  IF project = None
        THEN UNCHANGED << homeVars, currentTime >>
        ELSE /\ currentEntry' = Some(newEntry(project[1], now))
             /\ timeEntries' = IF currentEntry # None
                               THEN Append(timeEntries, currentEntry[1]) ELSE timeEntries
             /\ store' = saveCurrentEntryEffect(saveEntriesEffect(store, timeEntries'),
                                                currentEntry')
             /\ currentTime' = timerEffect(currentEntry', currentTime)
             /\ UNCHANGED projects

startTimer(projectId) ==
    LET project == findProject(projects, projectId)
    IN  IF project = None
        THEN UNCHANGED << homeVars, currentTime >>
        ELSE /\ currentEntry' = Some(newEntry(project[1], now))
             /\ store' = saveCurrentEntryEffect(store, currentEntry')
             /\ currentTime' = timerEffect(currentEntry', currentTime)
             /\ UNCHANGED << projects, timeEntries >>

\* a stop that takes the seconds the timer displays
stoppedEntryFromDisplay(entry, t) ==
    [entry EXCEPT !.endTime = Num(t),
                  !.duration = currentTime,
                  !.isRunning = FALSE]

\* a stop that records no end time
stoppedEntryWithoutEnd(entry, t) ==
    [entry EXCEPT !.duration = floorSeconds(t - entry.startTime),
                  !.isRunning = FALSE]

\* stopTimer: the stopped entry
stoppedEntry(entry, t) ==
    [entry EXCEPT !.endTime = Num(t),
                  !.duration = floorSeconds(t - entry.startTime),
                  !.isRunning = FALSE]

stopTimer ==
    IF currentEntry = None
    THEN UNCHANGED << homeVars, currentTime >>
    ELSE /\ currentEntry' = Some(stoppedEntry(currentEntry[1], now))
         /\ store' = saveCurrentEntryEffect(store, currentEntry')
         /\ currentTime' = timerEffect(currentEntry', currentTime)
         /\ UNCHANGED << projects, timeEntries >>

\* a saveEntry that keeps only the entry it is given
saveEntryAlone(entry) ==
    /\ timeEntries' = << entry >>
    /\ currentEntry' = None
    /\ store' = saveCurrentEntryEffect(saveEntriesEffect(store, timeEntries'), currentEntry')
    /\ currentTime' = timerEffect(currentEntry', currentTime)
    /\ UNCHANGED projects

\* saveEntry: setTimeEntries([...timeEntries, entry]); setCurrentEntry(null)
saveEntry(entry) ==
    /\ timeEntries' = Append(timeEntries, entry)
    /\ currentEntry' = None
    /\ store' = saveCurrentEntryEffect(saveEntriesEffect(store, timeEntries'), currentEntry')
    /\ currentTime' = timerEffect(currentEntry', currentTime)
    /\ UNCHANGED projects

\* updateTimeEntry: entries.map(entry => entry.id === id ? { ...entry, ...updatedEntry } : entry)
\* with updatedEntry = { editedDuration }
updateTimeEntryList(es, id, edited) ==
    [i \in 1..Len(es) |->
        IF es[i].id = id THEN [es[i] EXCEPT !.editedDuration = edited] ELSE es[i]]

updateTimeEntry(id, edited) ==
    /\ timeEntries' = updateTimeEntryList(timeEntries, id, edited)
    /\ store' = saveEntriesEffect(store, timeEntries')
    /\ UNCHANGED << projects, currentEntry >>

\* deleteTimeEntry: entries.filter(entry => entry.id !== id)
deleteTimeEntryList(es, id) == SelectSeq(es, LAMBDA e : e.id # id)

deleteTimeEntry(id) ==
    /\ timeEntries' = deleteTimeEntryList(timeEntries, id)
    /\ store' = saveEntriesEffect(store, timeEntries')
    /\ UNCHANGED << projects, currentEntry >>

-----------------------------------------------------------------------------
(* TimeEntryHistory: the filtered, sorted and paginated view *)

\* a sort that puts an entry before the entries of its date
RECURSIVE sortByDateDescUnstable(_)
sortByDateDescUnstable(s) ==
    IF s = << >> THEN << >>
    ELSE LET r == sortByDateDescUnstable(SubSeq(s, 1, Len(s) - 1))
             e == s[Len(s)]
             k == Len(SelectSeq(r, LAMBDA x : x.date > e.date))
         IN  SubSeq(r, 1, k) \o << e >> \o SubSeq(r, k + 1, Len(r))

\* Array.prototype.sort with (a, b) => date(b) - date(a): stable, newest first
RECURSIVE sortByDateDesc(_)
sortByDateDesc(s) ==
    IF s = << >> THEN << >>
    ELSE LET r == sortByDateDesc(SubSeq(s, 1, Len(s) - 1))
             e == s[Len(s)]
             k == Len(SelectSeq(r, LAMBDA x : x.date >= e.date))
         IN  SubSeq(r, 1, k) \o << e >> \o SubSeq(r, k + 1, Len(r))

\* a filter whose from bound is exclusive
filteredEntriesAfterFrom(es, fProject, fFrom, fTo) ==
    LET f1 == IF fProject # None
              THEN SelectSeq(es, LAMBDA e : e.projectId = fProject[1]) ELSE es
        f2 == IF fFrom # None THEN SelectSeq(f1, LAMBDA e : e.date > fFrom[1]) ELSE f1
        f3 == IF fTo # None THEN SelectSeq(f2, LAMBDA e : e.date <= fTo[1]) ELSE f2
    IN  sortByDateDesc(f3)

filteredEntries(es, fProject, fFrom, fTo) ==
    LET f1 == IF fProject # None
              THEN SelectSeq(es, LAMBDA e : e.projectId = fProject[1]) ELSE es
        f2 == IF fFrom # None THEN SelectSeq(f1, LAMBDA e : e.date >= fFrom[1]) ELSE f1
        f3 == IF fTo # None THEN SelectSeq(f2, LAMBDA e : e.date <= fTo[1]) ELSE f2
    IN  sortByDateDesc(f3)

\* Array.prototype.slice(start, end) with 0 <= start <= end
slice(s, start, end) ==
    LET hi == IF end < Len(s) THEN end ELSE Len(s)
    IN  IF start >= hi THEN << >> ELSE SubSeq(s, start + 1, hi)

\* a page that ends one entry early
paginatedEntriesShort(fs, page) ==
    LET start == (page - 1) * itemsPerPage
        end == start + itemsPerPage - 1
    IN  slice(fs, start, end)

paginatedEntries(fs, page) ==
    LET start == (page - 1) * itemsPerPage
        end == start + itemsPerPage
    IN  slice(fs, start, end)

\* Math.ceil(filteredEntries.length / itemsPerPage)
totalPages(fs) == (Len(fs) + itemsPerPage - 1) \div itemsPerPage

\* the name a history row shows: {entry.projectName}
rowProjectName(entry) == entry.projectName

\* the filtered total, in seconds (shown as hours, divided by 3600)
RECURSIVE totalSeconds(_)
totalSeconds(es) ==
    IF es = << >> THEN 0
    ELSE totalSeconds(SubSeq(es, 1, Len(es) - 1)) + effectiveDuration(es[Len(es)])

\* Quick Stats: today's total, in seconds
todaysTotal(es, t) == totalSeconds(SelectSeq(es, LAMBDA e : e.date = isoDate(t)))

\* PerformanceCharts: totalHours, in seconds
RECURSIVE analyticsTotal(_)
analyticsTotal(es) ==
    IF es = << >> THEN 0
    ELSE analyticsTotal(SubSeq(es, 1, Len(es) - 1))
            + JsOr(es[Len(es)].editedDuration, Num(es[Len(es)].duration)).v

shownFiltered == filteredEntries(timeEntries, filterProject, filterDateFrom, filterDateTo)
shownPage == paginatedEntries(shownFiltered, currentPage)

\* the seconds the edit dialogs compute from their three fields
editTotalSeconds(in) ==
    JsAdd(JsAdd(JsMul(parseInt(in[1]), 3600), JsMul(parseInt(in[2]), 60)), parseInt(in[3]))

-----------------------------------------------------------------------------
(* ProjectSelector *)

handleAddProject(nameInput, color) ==
    /\ phase = "ready"
    /\ Len(projects) < MaxProjects
    /\ IF trim(nameInput) # ""
       THEN addProject(trim(nameInput), color)
       ELSE UNCHANGED homeVars
    /\ refused' = ""
    /\ UNCHANGED << clockVars, mountVars, selectedProject, currentTime, historyVars,
                    entriesAtStart, traceVars >>

\* editingProject is a row of the list; the row being edited shows no delete button
handleUpdateProject(i, nameInput, color) ==
    /\ phase = "ready"
    /\ i \in 1..Len(projects)
    /\ IF trim(nameInput) # ""
       THEN updateProject(projects[i].id, trim(nameInput), color)
       ELSE UNCHANGED homeVars
    /\ refused' = ""
    /\ UNCHANGED << clockVars, mountVars, selectedProject, currentTime, historyVars,
                    entriesAtStart, traceVars >>

handleDeleteProject(i) ==
    /\ phase = "ready"
    /\ i \in 1..Len(projects)
    /\ deleteProject(projects[i].id)
    /\ refused' = ""
    /\ UNCHANGED << clockVars, mountVars, selectedProject, currentTime, historyVars,
                    entriesAtStart, traceVars >>

-----------------------------------------------------------------------------
(* Timer *)

\* the Select is disabled while the entry runs; its items are the projects
setSelectedProject(i) ==
    /\ phase = "ready"
    /\ ~Running
    /\ i \in 1..Len(projects)
    /\ selectedProject' = Some(projects[i].id)
    /\ refused' = ""
    /\ UNCHANGED << clockVars, mountVars, homeVars, currentTime, historyVars, entriesAtStart,
                    traceVars >>

\* the history variables of a start request: an id enters abandoned when the
\* start replaces a staged entry whose id names that entry alone
startTrace ==
    /\ entriesAtStart' = IF currentEntry' = currentEntry THEN entriesAtStart
                         ELSE IF Idle THEN Some(timeEntries) ELSE None
    /\ refused' = IF selectedProject = None \/ Running THEN "start"
                  ELSE IF currentEntry' = currentEntry THEN "startTimer"
                  ELSE ""
    /\ abandoned' = IF /\ Stopped
                       /\ currentEntry' # currentEntry
                       /\ currentEntry'[1].id # currentEntry[1].id
                       /\ \A k \in 1..Len(timeEntries) : timeEntries[k].id # currentEntry[1].id
                    THEN abandoned \cup {currentEntry[1].id}
                    ELSE abandoned
    /\ UNCHANGED atReload

\* a handleStart without the isRunning test
handleStartWhileRunning ==
    /\ phase = "ready"
    /\ IF selectedProject # None
       THEN startTimer(selectedProject[1])
       ELSE UNCHANGED << homeVars, currentTime >>
    /\ startTrace
    /\ UNCHANGED << clockVars, mountVars, selectedProject, historyVars >>

handleStart ==
    /\ phase = "ready"
    /\ IF selectedProject # None /\ ~Running
       THEN startTimer(selectedProject[1])
       ELSE UNCHANGED << homeVars, currentTime >>
    /\ startTrace
    /\ UNCHANGED << clockVars, mountVars, selectedProject, historyVars >>

\* a handleStop without the isRunning test
handleStopAnySession ==
    /\ phase = "ready"
    /\ stopTimer
    /\ refused' = IF Running THEN "" ELSE "stop"
    /\ UNCHANGED << clockVars, mountVars, selectedProject, historyVars, entriesAtStart,
                    traceVars >>

handleStop ==
    /\ phase = "ready"
    /\ IF Running
       THEN stopTimer
       ELSE UNCHANGED << homeVars, currentTime >>
    /\ refused' = IF Running THEN "" ELSE "stop"
    /\ UNCHANGED << clockVars, mountVars, selectedProject, historyVars, entriesAtStart,
                    traceVars >>

\* a handleSave without the isRunning test
handleSaveAnyEntry ==
    /\ phase = "ready"
    /\ IF currentEntry # None
       THEN saveEntry(currentEntry[1])
       ELSE UNCHANGED << homeVars, currentTime >>
    /\ refused' = ""
    /\ UNCHANGED << clockVars, mountVars, selectedProject, historyVars, entriesAtStart,
                    traceVars >>

handleSave ==
    /\ phase = "ready"
    /\ IF Stopped
       THEN saveEntry(currentEntry[1])
       ELSE UNCHANGED << homeVars, currentTime >>
    /\ refused' = ""
    /\ UNCHANGED << clockVars, mountVars, selectedProject, historyVars, entriesAtStart,
                    traceVars >>

\* an edit that also overwrites the measured duration
editedEntryOverwriting(entry, total) ==
    [entry EXCEPT !.duration = IF IsNum(total) THEN total.v ELSE @,
                  !.editedDuration = total]

\* handleEditTime: { ...currentEntry, editedDuration: totalSeconds }
editedEntry(entry, total) == [entry EXCEPT !.editedDuration = total]

\* an edit dialog that is rendered for a running entry too
handleEditTimeAnySession(in) ==
    /\ phase = "ready"
    /\ currentEntry # None
    /\ currentEntry' = Some(editedEntry(currentEntry[1], editTotalSeconds(in)))
    /\ store' = saveCurrentEntryEffect(store, currentEntry')
    /\ currentTime' = timerEffect(currentEntry', currentTime)
    /\ refused' = ""
    /\ UNCHANGED << projects, timeEntries >>
    /\ UNCHANGED << clockVars, mountVars, selectedProject, historyVars, entriesAtStart,
                    traceVars >>

\* the edit dialog is rendered only for a stopped entry
handleEditTime(in) ==
    /\ phase = "ready"
    /\ Stopped
    /\ currentEntry' = Some(editedEntry(currentEntry[1], editTotalSeconds(in)))
    /\ store' = saveCurrentEntryEffect(store, currentEntry')
    /\ currentTime' = timerEffect(currentEntry', currentTime)
    /\ refused' = ""
    /\ UNCHANGED << projects, timeEntries >>
    /\ UNCHANGED << clockVars, mountVars, selectedProject, historyVars, entriesAtStart,
                    traceVars >>

\* the setInterval callback of a running entry
intervalTick ==
    /\ phase = "ready"
    /\ Running
    /\ currentTime' = floorSeconds(now - currentEntry[1].startTime)
    /\ refused' = ""
    /\ UNCHANGED << clockVars, mountVars, homeVars, selectedProject, historyVars,
                    entriesAtStart, traceVars >>

-----------------------------------------------------------------------------
(* TimeEntryHistory: edit and delete of a shown row *)

handleUpdateEntry(i, in) ==
    /\ phase = "ready"
    /\ i \in 1..Len(shownPage)
    /\ updateTimeEntry(shownPage[i].id, editTotalSeconds(in))
    /\ entriesAtStart' = None
    /\ refused' = ""
    /\ UNCHANGED << clockVars, mountVars, selectedProject, currentTime, historyVars,
                    traceVars >>

handleDeleteEntry(i) ==
    /\ phase = "ready"
    /\ i \in 1..Len(shownPage)
    /\ deleteTimeEntry(shownPage[i].id)
    /\ entriesAtStart' = None
    /\ refused' = ""
    /\ UNCHANGED << clockVars, mountVars, selectedProject, currentTime, historyVars,
                    traceVars >>

-----------------------------------------------------------------------------
(* TimeEntryHistory: the filter and pagination controls *)

\* the dates typed into the two date filters
DateInputs == {11, 12}

projectIds == {projects[k].id : k \in 1..Len(projects)}

setFilterProject(v) ==
    /\ phase = "ready"
    /\ v = None \/ (v # None /\ v[1] \in projectIds)
    /\ filterProject' = v
    /\ UNCHANGED << clockVars, mountVars, homeVars, selectedProject, currentTime,
                    currentPage, filterDateFrom, filterDateTo, entriesAtStart, refused, traceVars, ops >>

setFilterDateFrom(v) ==
    /\ phase = "ready"
    /\ filterDateFrom' = v
    /\ UNCHANGED << clockVars, mountVars, homeVars, selectedProject, currentTime,
                    currentPage, filterProject, filterDateTo, entriesAtStart, refused, traceVars, ops >>

setFilterDateTo(v) ==
    /\ phase = "ready"
    /\ filterDateTo' = v
    /\ UNCHANGED << clockVars, mountVars, homeVars, selectedProject, currentTime,
                    currentPage, filterProject, filterDateFrom, entriesAtStart, refused, traceVars, ops >>

clearFilters ==
    /\ phase = "ready"
    /\ filterProject' = None
    /\ filterDateFrom' = None
    /\ filterDateTo' = None
    /\ currentPage' = 1
    /\ UNCHANGED << clockVars, mountVars, homeVars, selectedProject, currentTime,
                    entriesAtStart, refused, traceVars, ops >>

\* the controls are rendered when the filtered list is not empty and totalPages > 1
paginationShown == shownFiltered # << >> /\ totalPages(shownFiltered) > 1

previousPage ==
    /\ phase = "ready"
    /\ paginationShown
    /\ currentPage # 1
    /\ currentPage' = currentPage - 1
    /\ UNCHANGED << clockVars, mountVars, homeVars, selectedProject, currentTime,
                    filterProject, filterDateFrom, filterDateTo, entriesAtStart, refused, traceVars, ops >>

\* the numbered buttons: 1..Math.min(5, totalPages)
goToPage(page) ==
    /\ phase = "ready"
    /\ paginationShown
    /\ page \in 1..(IF totalPages(shownFiltered) < 5 THEN totalPages(shownFiltered) ELSE 5)
    /\ currentPage' = page
    /\ UNCHANGED << clockVars, mountVars, homeVars, selectedProject, currentTime,
                    filterProject, filterDateFrom, filterDateTo, entriesAtStart, refused, traceVars, ops >>

nextPage ==
    /\ phase = "ready"
    /\ paginationShown
    /\ currentPage # totalPages(shownFiltered)
    /\ currentPage < MaxPage
    /\ currentPage' = currentPage + 1
    /\ UNCHANGED << clockVars, mountVars, homeVars, selectedProject, currentTime,
                    filterProject, filterDateFrom, filterDateTo, entriesAtStart, refused, traceVars, ops >>

-----------------------------------------------------------------------------
(* The clock *)

advanceClock(d) ==
    /\ phase = "ready"
    /\ ticks < MaxTicks
    /\ now' = now + d
    /\ ticks' = ticks + 1
    /\ refused' = ""
    /\ UNCHANGED << mountVars, homeVars, selectedProject, currentTime, historyVars,
                    entriesAtStart, traceVars >>

\* one operation of the user (or of the timer interval)
userStep ==
    \/ reload
    \/ \E d \in TickSteps : advanceClock(d)
    \/ \E n \in NameInputs, c \in ColorInputs : handleAddProject(n, c)
    \/ \E i \in RowInputs, n \in NameInputs, c \in ColorInputs :
          handleUpdateProject(i, n, c)
    \/ \E i \in RowInputs : handleDeleteProject(i)
    \/ \E i \in RowInputs : setSelectedProject(i)
    \/ handleStart
    \/ handleStop
    \/ handleSave
    \/ \E in \in EditInputs : handleEditTime(in)
    \/ intervalTick
    \/ \E i \in RowInputs, in \in EditInputs : handleUpdateEntry(i, in)
    \/ \E i \in RowInputs : handleDeleteEntry(i)

Next ==
    \/ loadEffect
    \/ mountSaveEffects
    \/ rerender
    \/ /\ ops < MaxOps
       /\ ops' = ops + 1
       /\ userStep

Spec == Init /\ [][Next]_vars

-----------------------------------------------------------------------------
(* The history view over a saved list of up to MaxHistoryEntries entries *)

\* the two layouts of projects and dates over the list
HistoryPatterns == {1, 3}

historyEntry(k, pat) ==
    LET day == 10 + ((k * pat) % 4)
        start == day * Day + k * Second
        project == defaultProjects(Day)[1 + ((k + pat) % 3)]
    IN  [id |-> start,
         projectId |-> project.id,
         projectName |-> project.name,
         startTime |-> start,
         endTime |-> Num(start + clock(90500)),
         duration |-> 90,
         date |-> day,
         isRunning |-> FALSE,
         editedDuration |-> IF k % 3 = 0 THEN Num(120) ELSE Undefined]

historyEntries(n, pat) == [k \in 1..n |-> historyEntry(k, pat)]

InitHistory ==
    /\ now = 14 * Day
    /\ ticks = 0
    /\ phase = "ready"
    /\ saved = emptySlots
    /\ pending = emptySlots
    /\ projects = defaultProjects(Day)
    /\ \E n \in 0..MaxHistoryEntries, pat \in HistoryPatterns :
          timeEntries = historyEntries(n, pat)
    /\ currentEntry = None
    /\ store = [projects |-> Some(stringifyProjects(projects)),
                entries |-> Some(stringifyEntries(timeEntries)),
                current |-> None]
    /\ selectedProject = None
    /\ currentTime = 0
    /\ currentPage = 1
    /\ filterProject = None
    /\ filterDateFrom = None
    /\ filterDateTo = None
    /\ entriesAtStart = None
    /\ refused = ""
    /\ abandoned = {}
    /\ atReload = None
    /\ ops = 0

NextHistory ==
    \/ \E v \in {None} \cup {Some(id) : id \in projectIds} : setFilterProject(v)
    \/ \E v \in {None} \cup {Some(d) : d \in DateInputs} : setFilterDateFrom(v)
    \/ \E v \in {None} \cup {Some(d) : d \in DateInputs} : setFilterDateTo(v)
    \/ clearFilters
    \/ previousPage
    \/ \E page \in 1..5 : goToPage(page)
    \/ nextPage
    \/ /\ ops < MaxHistoryOps
       /\ ops' = ops + 1
       /\ \E i \in RowInputs : handleDeleteEntry(i)

SpecHistory == InitHistory /\ [][NextHistory]_vars

-----------------------------------------------------------------------------
(* The operations of Home called with any id, over a saved list of up to     *)
(* MaxHomeEntries entries                                                    *)

\* the ids a caller passes: two projects of the list and an id no project has
ProjectIdInputs == {1, 2, 99}

\* the first entry of either layout and an id no entry has
EntryIdInputs == {historyEntry(1, pat).id : pat \in HistoryPatterns} \cup {99}

InitHome ==
    /\ now = 14 * Day
    /\ ticks = 0
    /\ phase = "ready"
    /\ saved = emptySlots
    /\ pending = emptySlots
    /\ projects = defaultProjects(Day)
    /\ \E n \in 0..MaxHomeEntries, pat \in HistoryPatterns :
          timeEntries = historyEntries(n, pat)
    /\ currentEntry = None
    /\ store = [projects |-> Some(stringifyProjects(projects)),
                entries |-> Some(stringifyEntries(timeEntries)),
                current |-> None]
    /\ selectedProject = None
    /\ currentTime = 0
    /\ currentPage = 1
    /\ filterProject = None
    /\ filterDateFrom = None
    /\ filterDateTo = None
    /\ entriesAtStart = None
    /\ refused = ""
    /\ abandoned = {}
    /\ atReload = None
    /\ ops = 0

\* what a call of a Home operation leaves alone
callFrame ==
    /\ phase = "ready"
    /\ ops < MaxHomeOps
    /\ ops' = ops + 1
    /\ UNCHANGED << clockVars, mountVars, selectedProject, currentTime, historyVars,
                    entriesAtStart, traceVars >>

callUpdateProject(id, name, color) ==
    /\ callFrame
    /\ updateProject(id, name, color)
    /\ refused' = IF findProject(projects, id) = None THEN "updateProject" ELSE ""

callDeleteProject(id) ==
    /\ callFrame
    /\ deleteProject(id)
    /\ refused' = IF findProject(projects, id) = None THEN "deleteProject" ELSE ""

callUpdateTimeEntry(id, edited) ==
    /\ callFrame
    /\ updateTimeEntry(id, edited)
    /\ refused' = IF \A k \in 1..Len(timeEntries) : timeEntries[k].id # id
                  THEN "updateTimeEntry" ELSE ""

callDeleteTimeEntry(id) ==
    /\ callFrame
    /\ deleteTimeEntry(id)
    /\ refused' = IF \A k \in 1..Len(timeEntries) : timeEntries[k].id # id
                  THEN "deleteTimeEntry" ELSE ""

NextHome ==
    \/ \E id \in ProjectIdInputs, c \in ColorInputs : callUpdateProject(id, "Design", c)
    \/ \E id \in ProjectIdInputs : callDeleteProject(id)
    \/ \E id \in EntryIdInputs : callUpdateTimeEntry(id, Num(120))
    \/ \E id \in EntryIdInputs : callDeleteTimeEntry(id)

SpecHome == InitHome /\ [][NextHome]_vars

-----------------------------------------------------------------------------
(* PerformanceCharts: the three series.  An hours value is kept in seconds   *)
(* (the code divides each duration by 3600 before it adds it).  The dates are *)
(* read in UTC.                                                               *)

\* a string built by + from a value that is no number
JsString == [k |-> "string", v |-> 0]

\* a function found on Object.prototype
JsFunction == [k |-> "function", v |-> 0]

\* names every object literal inherits from Object.prototype
protoKeys == {"constructor", "toString", "valueOf", "hasOwnProperty"}

\* Array.prototype.sort with (a, b) => a.t - b.t on pairs [t, item]: stable, ascending
RECURSIVE sortByKey(_)
sortByKey(s) ==
    IF s = << >> THEN << >>
    ELSE LET r == sortByKey(SubSeq(s, 1, Len(s) - 1))
             e == s[Len(s)]
             k == Len(SelectSeq(r, LAMBDA x : x.t <= e.t))
         IN  SubSeq(r, 1, k) \o << e >> \o SubSeq(r, k + 1, Len(r))

\* a sequence with its element at place i replaced
replaced(s, i, x) == SubSeq(s, 1, i - 1) \o << x >> \o SubSeq(s, i + 1, Len(s))

items(s) == [i \in 1..Len(s) |-> s[i].item]

\* Array.prototype.slice(-n): the last n elements
sliceLast(s, n) == IF Len(s) <= n THEN s ELSE SubSeq(s, Len(s) - n + 1, Len(s))

\* (x || 0) + hours
orZeroPlus(x, hours) ==
    IF x.k = "num" THEN Num(x.v + hours)
    ELSE IF x.k = "undefined" THEN Num(hours)
    ELSE JsString

\* dailyData, one entry: data[date].hours += hours;
\* data[date][entry.projectName] = (data[date][entry.projectName] || 0) + hours
\* (the names drawn are never "date", whose value is a string)
dailyBucket(b, entry) ==
    LET hours == effectiveDuration(entry)
        b1 == [b EXCEPT !["hours"] = Num(@.v + hours)]
        name == entry.projectName
        prior == IF name \in DOMAIN b1 THEN b1[name]
                 ELSE IF name \in protoKeys THEN JsFunction
                 ELSE Undefined
    IN  IF name \in DOMAIN b1
        THEN [b1 EXCEPT ![name] = orZeroPlus(prior, hours)]
        ELSE b1 @@ (name :> orZeroPlus(prior, hours))

\* the entries of a list at the places of a set, in the order of the list
pick(es, at) ==
    [p \in 1..Cardinality(at) |->
        es[CHOOSE k \in at : Cardinality({j \in at : j <= k}) = p]]

\* dailyData, the entries of one date in turn, from the bucket b
RECURSIVE dailyFold(_, _)
dailyFold(b, es) ==
    IF es = << >> THEN b
    ELSE dailyBucket(dailyFold(b, SubSeq(es, 1, Len(es) - 1)), es[Len(es)])

\* dailyData: the object data after entries.forEach, its keys in insertion
\* order.  A key is created by the first entry of its date (if (!data[date]))
\* and its bucket takes the entries of that date in the order of the list.
dailyObject(es) ==
    LET first == {k \in 1..Len(es) : \A j \in 1..(k - 1) : es[j].date # es[k].date}
        created == pick(es, first)
    IN  [p \in 1..Len(created) |->
            LET date == created[p].date
                fresh == ("date" :> Num(date)) @@ ("hours" :> Num(0))
                sameDate == {k \in 1..Len(es) : es[k].date = date}
            IN  [key |-> date, value |-> dailyFold(fresh, pick(es, sameDate))]]

\* dailyData: Object.values(data).sort(by date).slice(-30)
dailyData(es) ==
    LET data == dailyObject(es)
        values == [i \in 1..Len(data) |-> [t |-> data[i].value["date"].v,
                                            item |-> data[i].value]]
    IN  sliceLast(items(sortByKey(values)), 30)

\* projectData: the object data after entries.forEach
RECURSIVE projectObject(_, _)
projectObject(es, ps) ==
    IF es = << >> THEN << >>
    ELSE LET data == projectObject(SubSeq(es, 1, Len(es) - 1), ps)
             entry == es[Len(es)]
             hours == effectiveDuration(entry)
             at == {i \in 1..Len(data) : data[i].name = entry.projectName}
         IN  IF at # {}
             THEN LET i == CHOOSE j \in at : TRUE
                  IN  replaced(data, i, [data[i] EXCEPT !.hours = @ + hours,
                                                        !.entries = @ + 1])
             ELSE IF entry.projectName \in protoKeys
             THEN data
             ELSE Append(data, [name |-> entry.projectName,
                                hours |-> hours,
                                color |-> getProjectColor(ps, entry.projectId),
                                entries |-> 1])

\* projectData: Object.values(data).sort((a, b) => b.hours - a.hours)
projectData(es, ps) ==
    LET data == projectObject(es, ps)
    IN  items(sortByKey([i \in 1..Len(data) |-> [t |-> 0 - data[i].hours, item |-> data[i]]]))

\* Date.prototype.getDay of a day number: 1970-01-01 was a Thursday
getDay(d) == (d + 4) % 7

\* startOfWeek.setDate(date.getDate() - date.getDay()), as a day number
startOfWeek(d) == d - getDay(d)

isLeapYear(y) == (y % 4 = 0 /\ y % 100 # 0) \/ y % 400 = 0

\* the day number of January 1st of year y
daysBeforeYear(y) ==
    365 * (y - 1970) + ((y - 1969) \div 4) - ((y - 1901) \div 100) + ((y - 1601) \div 400)

yearOf(d) == CHOOSE y \in 1970..2099 : daysBeforeYear(y) <= d /\ d < daysBeforeYear(y + 1)

\* the days of the year before month m
daysBeforeMonth(m, leap) ==
    << 0, 31, 59, 90, 120, 151, 181, 212, 243, 273, 304, 334, 365 >>[m]
        + (IF leap /\ m > 2 THEN 1 ELSE 0)

monthOf(d) ==
    LET y == yearOf(d)
        n == d - daysBeforeYear(y)
    IN  CHOOSE m \in 1..12 :
            /\ daysBeforeMonth(m, isLeapYear(y)) <= n
            /\ n < daysBeforeMonth(m + 1, isLeapYear(y))

dayOfMonth(d) ==
    d - daysBeforeYear(yearOf(d)) - daysBeforeMonth(monthOf(d), isLeapYear(yearOf(d))) + 1

\* toLocaleDateString('en-US', { month: 'short', day: 'numeric' }): month and day, no year
toLocaleDateString(d) == << monthOf(d), dayOfMonth(d) >>

\* new Date(label).getTime() of a label without a year: the day of the year 2001
labelTime(label) == daysBeforeMonth(label[1], FALSE) + label[2]

\* weeklyData: weeklyMap after entries.forEach
RECURSIVE weeklyMap(_)
weeklyMap(es) ==
    IF es = << >> THEN << >>
    ELSE LET data == weeklyMap(SubSeq(es, 1, Len(es) - 1))
             entry == es[Len(es)]
             weekKey == startOfWeek(entry.date)
             hours == effectiveDuration(entry)
             at == {i \in 1..Len(data) : data[i].key = weekKey}
         IN  IF at = {}
             THEN Append(data, [key |-> weekKey, hours |-> hours])
             ELSE LET i == CHOOSE j \in at : TRUE
                  IN  replaced(data, i, [data[i] EXCEPT !.hours = @ + hours])

\* weeklyData: Object.entries(weeklyMap).map(label).sort(by label).slice(-8)
weeklyData(es) ==
    LET data == weeklyMap(es)
        labelled == [i \in 1..Len(data) |->
                        [week |-> toLocaleDateString(data[i].key), hours |-> data[i].hours]]
    IN  sliceLast(items(sortByKey([i \in 1..Len(labelled) |->
                                      [t |-> labelTime(labelled[i].week),
                                       item |-> labelled[i]]])), 8)

-----------------------------------------------------------------------------
(* The charts over a saved list of up to MaxChartEntries entries, while the  *)
(* projects are renamed and the entries edited or deleted                    *)

\* 1970-12-13, a Sunday: the lists run over the turn of the year
ChartBase == daysBeforeYear(1971) - 19

\* the days between two entries of a list: consecutive days, or consecutive weeks
ChartSteps == {1, 7}

ChartNameInputs == {"Design", "hours", "toString"}

ChartEditInputs == {Num(0), Num(120)}

\* entry k of a list: 31 dates, the 32nd entry falls on the date of the first
chartEntry(k, step) ==
    LET day == ChartBase + step * (k % 31)
        start == day * Day + k * Second
        project == defaultProjects(Day)[1 + (k % 3)]
    IN  [id |-> start,
         projectId |-> project.id,
         projectName |-> project.name,
         startTime |-> start,
         endTime |-> Num(start + clock(90500) * (1 + (k % 2))),
         duration |-> 90 * (1 + (k % 2)) + (k % 2),
         date |-> day,
         isRunning |-> FALSE,
         editedDuration |-> IF k % 4 = 0 THEN Num(120) ELSE Undefined]

chartEntries(n, step) == [k \in 1..n |-> chartEntry(k, step)]

InitCharts ==
    /\ now = (ChartBase + 300) * Day
    /\ ticks = 0
    /\ phase = "ready"
    /\ saved = emptySlots
    /\ pending = emptySlots
    /\ projects = defaultProjects(Day)
    /\ \E n \in 0..MaxChartEntries, step \in ChartSteps :
          timeEntries = chartEntries(n, step)
    /\ currentEntry = None
    /\ store = [projects |-> Some(stringifyProjects(projects)),
                entries |-> Some(stringifyEntries(timeEntries)),
                current |-> None]
    /\ selectedProject = None
    /\ currentTime = 0
    /\ currentPage = 1
    /\ filterProject = None
    /\ filterDateFrom = None
    /\ filterDateTo = None
    /\ entriesAtStart = None
    /\ refused = ""
    /\ abandoned = {}
    /\ atReload = None
    /\ ops = 0

chartFrame ==
    /\ phase = "ready"
    /\ ops < MaxChartOps
    /\ ops' = ops + 1
    /\ UNCHANGED << clockVars, mountVars, selectedProject, currentTime, historyVars,
                    entriesAtStart, refused, traceVars >>

chartRename(i, name, color) ==
    /\ chartFrame
    /\ i \in 1..Len(projects)
    /\ updateProject(projects[i].id, name, color)

chartEdit(i, edited) ==
    /\ chartFrame
    /\ i \in 1..Len(timeEntries)
    /\ updateTimeEntry(timeEntries[i].id, edited)

chartDelete(i) ==
    /\ chartFrame
    /\ i \in 1..Len(timeEntries)
    /\ deleteTimeEntry(timeEntries[i].id)

NextCharts ==
    \/ \E i \in RowInputs, name \in ChartNameInputs, c \in ColorInputs : chartRename(i, name, c)
    \/ \E i \in RowInputs, edited \in ChartEditInputs : chartEdit(i, edited)
    \/ \E i \in RowInputs : chartDelete(i)

SpecCharts == InitCharts /\ [][NextCharts]_vars

-----------------------------------------------------------------------------
(* Properties *)

Last(s) == s[Len(s)]

\* the same entry, but for the project name a rename may have propagated
SameButName(a, b) == [a EXCEPT !.projectName = b.projectName] = b

\* C1: a session that left Idle with an existing selected project and went
\* through start, stop and save, with only timer edits, project operations and
\* clock or interval ticks in between, leaves the durable list exactly one
\* longer: every previous entry is still there in its place, the staged entry
\* is appended unchanged at the end, and the session is Idle again.
C1_CycleKeepsEarlier ==
    entriesAtStart # None =>
        /\ \A i \in 1..Len(entriesAtStart[1]) :
              /\ i <= Len(timeEntries)
              /\ SameButName(timeEntries[i], entriesAtStart[1][i])
        /\ Len(timeEntries) = Len(entriesAtStart[1]) + (IF Idle THEN 1 ELSE 0)

C1_SaveAppends ==
    (handleSave /\ Stopped /\ entriesAtStart # None) =>
        /\ timeEntries' = Append(timeEntries, currentEntry[1])
        /\ Len(timeEntries') = Len(entriesAtStart[1]) + 1
        /\ currentEntry' = None

C1_StartStopSave == [][C1_SaveAppends]_vars /\ []C1_CycleKeepsEarlier

\* a second session was saved after a timer edit, and the first entry's project
\* was renamed since that session started
C1_Witness ==
    /\ phase = "ready" /\ Idle
    /\ entriesAtStart # None
    /\ Len(entriesAtStart[1]) = 1
    /\ Len(timeEntries) = 2
    /\ timeEntries[2].editedDuration = Num(120)
    /\ timeEntries[1].projectName # entriesAtStart[1][1].projectName

\* C2: no entry of the durable list (in memory or persisted) is running, so
\* the only entry that can have isRunning = true is the current entry.
C2_OnlyCurrentRuns ==
    /\ \A i \in 1..Len(timeEntries) : ~timeEntries[i].isRunning
    /\ store.entries # None =>
          \A i \in 1..Len(store.entries[1]) : ~store.entries[1][i].isRunning

C2_Witness ==
    /\ Running
    /\ Len(timeEntries) >= 1
    /\ store.current # None /\ store.current[1].isRunning

\* C3: every read of a duration uses editedDuration whenever it is present,
\* editedDuration = 0 included, and duration only when it is absent: the timer
\* display of a staged entry, a history row, the filtered total, today's total
\* and the analytics total.
HasEdit(e) == IsNum(e.editedDuration)
NoEdit(e) == e.editedDuration = Undefined
PlainEdits(es) == \A i \in 1..Len(es) : HasEdit(es[i]) \/ NoEdit(es[i])

specDuration(e) == IF HasEdit(e) THEN e.editedDuration.v ELSE e.duration

RECURSIVE specTotal(_)
specTotal(es) ==
    IF es = << >> THEN 0
    ELSE specTotal(SubSeq(es, 1, Len(es) - 1)) + specDuration(es[Len(es)])

C3_EditedDurationReadEverywhere ==
    /\ (phase = "ready" /\ Stopped /\ PlainEdits(currentEntry))
          => currentTime = specDuration(currentEntry[1])
    /\ \A i \in 1..Len(shownPage) :
          PlainEdits(<< shownPage[i] >>)
              => effectiveDuration(shownPage[i]) = specDuration(shownPage[i])
    /\ PlainEdits(timeEntries) =>
          /\ totalSeconds(shownFiltered) = specTotal(shownFiltered)
          /\ todaysTotal(timeEntries, now)
                = specTotal(SelectSeq(timeEntries, LAMBDA e : e.date = isoDate(now)))
          /\ analyticsTotal(timeEntries) = specTotal(timeEntries)

\* C4: once stop has set an entry's duration no later step changes it: a timer
\* edit changes only editedDuration of the staged entry, save appends the
\* staged entry with both values, a history edit, a rename or a project delete
\* keeps every durable entry's id and duration, and an entry delete leaves the
\* remaining entries as they were.
C4_DurationKept ==
    (phase = "ready" /\ phase' = "ready") =>
        /\ (Stopped /\ Stopped') =>
              [currentEntry'[1] EXCEPT !.editedDuration = currentEntry[1].editedDuration]
                  = currentEntry[1]
        /\ (handleSave /\ Stopped) =>
              /\ Last(timeEntries').duration = currentEntry[1].duration
              /\ Last(timeEntries').editedDuration = currentEntry[1].editedDuration
        /\ IF Len(timeEntries') >= Len(timeEntries)
           THEN \A i \in 1..Len(timeEntries) :
                    /\ timeEntries'[i].id = timeEntries[i].id
                    /\ timeEntries'[i].duration = timeEntries[i].duration
                    /\ timeEntries'[i].startTime = timeEntries[i].startTime
                    /\ timeEntries'[i].endTime = timeEntries[i].endTime
           ELSE \A j \in 1..Len(timeEntries') :
                    \E i \in 1..Len(timeEntries) : timeEntries[i] = timeEntries'[j]

C4_DurationNeverMutated == [][C4_DurationKept]_vars

\* stop after 90 s, editDuration(0, 2, 0), save: both values are in the durable entry
C4_Witness ==
    \E i \in 1..Len(timeEntries) :
        /\ timeEntries[i].duration = 90
        /\ timeEntries[i].editedDuration = Num(120)

\* C5: updateProject on an existing id sets projectName on every durable entry
\* of that project and nothing else on it, leaves the entries of other projects
\* as they are, and changes only name and color of the matching project.
C5_RenamePost(id, name, color) ==
    /\ Len(timeEntries') = Len(timeEntries)
    /\ \A k \in 1..Len(timeEntries) :
          IF timeEntries[k].projectId = id
          THEN /\ timeEntries'[k].projectName = name
               /\ SameButName(timeEntries'[k], timeEntries[k])
          ELSE timeEntries'[k] = timeEntries[k]
    /\ Len(projects') = Len(projects)
    /\ \A k \in 1..Len(projects) :
          IF projects[k].id = id
          THEN projects'[k] = [id |-> projects[k].id, name |-> name, color |-> color,
                               createdAt |-> projects[k].createdAt]
          ELSE projects'[k] = projects[k]

C5_RenameStep ==
    \A i \in RowInputs, n \in NameInputs, c \in ColorInputs :
        (handleUpdateProject(i, n, c) /\ trim(n) # "")
            => C5_RenamePost(projects[i].id, trim(n), c)

C5_RenamePropagates == [][C5_RenameStep]_vars

\* the first durable entry was renamed after the second session started, the
\* second entry belongs to another project and kept its name
C5_Witness ==
    /\ entriesAtStart # None
    /\ Len(entriesAtStart[1]) = 1
    /\ Len(timeEntries) = 2
    /\ entriesAtStart[1][1].projectName = "Software Engineering"
    /\ timeEntries[1].projectName = "Design"
    /\ timeEntries[2].projectId # timeEntries[1].projectId
    /\ timeEntries[2].projectName = "UI/UX Design"

\* C6: deleteProject removes only the project record: the durable entries and
\* the current session stay as they are, in memory and persisted, so an entry
\* may then reference a project id that no longer exists, which resolves to
\* the fallback colour.
C6_DeletePost(id) ==
    /\ timeEntries' = timeEntries
    /\ currentEntry' = currentEntry
    /\ store'.entries = store.entries
    /\ store'.current = store.current
    /\ Len(projects') = Len(projects) - Cardinality({k \in 1..Len(projects) : projects[k].id = id})
    /\ \A k \in 1..Len(projects') :
          /\ projects'[k].id # id
          /\ \E j \in k..Len(projects) : projects[j] = projects'[k]
    /\ \A k \in 1..Len(timeEntries') :
          timeEntries'[k].projectId = id
              => getProjectColor(projects', timeEntries'[k].projectId) = "#6B7280"

C6_DeleteStep ==
    \A i \in RowInputs : handleDeleteProject(i) => C6_DeletePost(projects[i].id)

C6_DeleteKeepsEntries == [][C6_DeleteStep]_vars

\* a durable entry and the running entry both reference a deleted project
C6_Witness ==
    /\ phase = "ready"
    /\ Running
    /\ findProject(projects, currentEntry[1].projectId) = None
    /\ \E k \in 1..Len(timeEntries) :
          /\ findProject(projects, timeEntries[k].projectId) = None
          /\ getProjectColor(projects, timeEntries[k].projectId) = "#6B7280"

\* C7: the filtered view holds exactly the entries that pass every active
\* filter: the selected project unless 'all', date >= from when from is set,
\* date <= to when to is set, both bounds included.
C7_Matches(e) ==
    /\ filterProject # None => e.projectId = filterProject[1]
    /\ filterDateFrom # None => filterDateFrom[1] <= e.date
    /\ filterDateTo # None => e.date <= filterDateTo[1]

C7_FilterExact ==
    /\ {shownFiltered[i] : i \in 1..Len(shownFiltered)}
          = {timeEntries[i] : i \in {j \in 1..Len(timeEntries) : C7_Matches(timeEntries[j])}}
    /\ Len(shownFiltered)
          = Cardinality({j \in 1..Len(timeEntries) : C7_Matches(timeEntries[j])})

\* all three filters are set, some entries pass and some do not, and an entry
\* lies on each bound
C7_Witness ==
    /\ filterProject # None /\ filterDateFrom # None /\ filterDateTo # None
    /\ filterDateFrom[1] < filterDateTo[1]
    /\ shownFiltered # << >>
    /\ Len(shownFiltered) < Len(timeEntries)
    /\ \E i \in 1..Len(shownFiltered) : shownFiltered[i].date = filterDateFrom[1]
    /\ \E i \in 1..Len(shownFiltered) : shownFiltered[i].date = filterDateTo[1]

\* C8: the pages 1..ceil(n/10) of the filtered and sorted list, concatenated in
\* order, are the list itself, and totalPages is ceil(n/10).
RECURSIVE C8_Concat(_, _)
C8_Concat(fs, lastPage) ==
    IF lastPage = 0 THEN << >>
    ELSE C8_Concat(fs, lastPage - 1) \o paginatedEntries(fs, lastPage)

C8_Ceil(n, size) == CHOOSE k \in 0..n : k * size >= n /\ (k = 0 \/ (k - 1) * size < n)

C8_PagesReconstruct ==
    /\ totalPages(shownFiltered) = C8_Ceil(Len(shownFiltered), itemsPerPage)
    /\ C8_Concat(shownFiltered, C8_Ceil(Len(shownFiltered), itemsPerPage)) = shownFiltered

\* three pages, the last one partial, and the last page is shown
C8_Witness ==
    /\ Len(shownFiltered) = 21
    /\ currentPage = 3
    /\ Len(shownPage) = 1

\* C9: once an operation's effects have run, each slot holds the serialised
\* current value: the project list, the entry list, and the current entry,
\* whose key is absent exactly when the session is Idle.
C9_SlotsMirrorState ==
    phase = "ready" =>
        /\ store.projects = Some(stringifyProjects(projects))
        /\ store.entries = Some(stringifyEntries(timeEntries))
        /\ store.current = IF Idle THEN None ELSE Some(stringifyEntry(currentEntry[1]))
        /\ store.current = None <=> Idle

\* a session was saved and a project deleted: the key of the current entry is gone
C9_Witness ==
    /\ phase = "ready"
    /\ Idle
    /\ store.current = None
    /\ store.entries # None /\ Len(store.entries[1]) = 1
    /\ store.projects # None /\ Len(store.projects[1]) = 2

\* C10: when mounting has settled, each slot that was present before the start
\* is the in-memory value and still holds it; the defaults are installed when
\* the project slot was absent, and a present project list, empty or not, is
\* kept as it is.
C10_Restore ==
    (phase = "flushed" /\ phase' = "ready") =>
        /\ saved.projects # None =>
              /\ projects' = JSONparse(saved.projects[1])
              /\ store'.projects = saved.projects
        /\ saved.projects = None =>
              /\ projects' = defaultProjects(now)
              /\ store'.projects = Some(defaultProjects(now))
        /\ saved.entries # None =>
              /\ timeEntries' = JSONparse(saved.entries[1])
              /\ store'.entries = saved.entries
        /\ saved.current # None =>
              /\ currentEntry' = Some(JSONparse(saved.current[1]))
              /\ store'.current = saved.current

C10_StartRestores == [][C10_Restore]_vars

\* after a reload (no project is selected) an empty project list, a saved entry
\* and the current entry are back
C10_Witness ==
    /\ phase = "ready"
    /\ selectedProject = None
    /\ currentEntry # None
    /\ projects = << >>
    /\ timeEntries # << >>
    /\ store.projects = Some(<< >>)

\* C11: a reload while the session is Running leaves the slots alone, and the
\* slot of the current entry holds the entry as it was started (duration 0, no
\* end time, no elapsed value); when mounting has settled the session is
\* Running again with the same entry (id, project, startTime); a stop that
\* follows sets duration to the whole seconds between the original startTime
\* and the stop, the time across the reload included.
C11_RunningAtReload ==
    /\ atReload # None
    /\ atReload[1].session # None
    /\ atReload[1].session[1].isRunning

C11_ReloadStep ==
    (reload /\ Running) =>
        /\ store' = store
        /\ DOMAIN store = {"projects", "entries", "current"}
        /\ store.current = Some(currentEntry[1])
        /\ DOMAIN store.current[1] = DOMAIN newEntry(defaultProjects(0)[1], 0)
        /\ store.current[1].duration = 0
        /\ store.current[1].endTime = JsNull

C11_RestoreStep ==
    (phase = "flushed" /\ phase' = "ready" /\ C11_RunningAtReload) =>
        /\ currentEntry' = atReload[1].session
        /\ currentEntry'[1].isRunning

C11_StopStep ==
    (handleStop /\ Running /\ C11_RunningAtReload /\ currentEntry = atReload[1].session) =>
        /\ currentEntry'[1].id = atReload[1].session[1].id
        /\ currentEntry'[1].startTime = atReload[1].session[1].startTime
        /\ currentEntry'[1].duration * Second <= now - atReload[1].session[1].startTime
        /\ (currentEntry'[1].duration + 1) * Second > now - atReload[1].session[1].startTime

C11_ReloadKeepsRunning == [][C11_ReloadStep /\ C11_RestoreStep /\ C11_StopStep]_vars

\* started, 90.5 s, reload, 90.5 s, stop: the duration is 181 s
C11_Witness ==
    /\ Stopped
    /\ C11_RunningAtReload
    /\ currentEntry[1].id = atReload[1].session[1].id
    /\ currentEntry[1].startTime = atReload[1].session[1].startTime
    /\ atReload[1].at = currentEntry[1].startTime + clock(90500)
    /\ currentEntry[1].endTime = Num(currentEntry[1].startTime + clock(181000))
    /\ currentEntry[1].duration = 181

\* what a request that is not acted on leaves alone
HomeUnchanged ==
    /\ projects' = projects
    /\ timeEntries' = timeEntries
    /\ currentEntry' = currentEntry
    /\ store' = store
    /\ currentTime' = currentTime

\* C12: a start request while the session is Running changes neither the
\* current entry nor the durable list (nor the projects, the slots, the display).
C12_StartStep == (handleStart /\ Running) => HomeUnchanged

C12_StartWhileRunningIgnored == [][C12_StartStep]_vars

\* a start was just declined although the selected project exists and the clock
\* has moved on since the running entry started
C12_Witness ==
    /\ refused = "start"
    /\ Running
    /\ selectedProject # None
    /\ findProject(projects, selectedProject[1]) # None
    /\ now > currentEntry[1].startTime

\* C13: a start request with no project selected, or with a selected id that
\* no project of the list has, changes nothing; a start that takes effect
\* stages an entry with the id and name of a project of the list, duration 0,
\* no end time and isRunning true.
C13_StartStep ==
    /\ (handleStart /\ (selectedProject = None
                          \/ findProject(projects, selectedProject[1]) = None))
          => HomeUnchanged
    /\ (handleStart /\ currentEntry' # currentEntry) =>
          /\ \E k \in 1..Len(projects) :
                /\ currentEntry'[1].projectId = projects[k].id
                /\ currentEntry'[1].projectName = projects[k].name
          /\ currentEntry'[1].duration = 0
          /\ currentEntry'[1].endTime = JsNull
          /\ currentEntry'[1].isRunning
          /\ projects' = projects
          /\ timeEntries' = timeEntries

C13_StartNeedsProject == [][C13_StartStep]_vars

\* the selected project was deleted and a start was just declined by startTimer
C13_Witness ==
    /\ refused = "startTimer"
    /\ selectedProject # None
    /\ findProject(projects, selectedProject[1]) = None
    /\ ~Running
    /\ projects # << >>

\* C14: a stop request while Running sets endTime to now, duration to the
\* whole seconds since startTime and isRunning to false, keeps the other fields
\* and the durable list, and leaves the session Stopped; a stop request in
\* Idle or Stopped changes nothing.
C14_StopStep ==
    /\ (handleStop /\ Running) =>
          /\ currentEntry' # None
          /\ ~currentEntry'[1].isRunning
          /\ currentEntry'[1].endTime = Num(now)
          /\ currentEntry'[1].duration * Second <= now - currentEntry[1].startTime
          /\ (currentEntry'[1].duration + 1) * Second > now - currentEntry[1].startTime
          /\ [currentEntry'[1] EXCEPT !.endTime = currentEntry[1].endTime,
                                      !.duration = currentEntry[1].duration,
                                      !.isRunning = TRUE] = currentEntry[1]
          /\ projects' = projects
          /\ timeEntries' = timeEntries
    /\ (handleStop /\ ~Running) => HomeUnchanged

C14_StopOnlyFromRunning == [][C14_StopStep]_vars

\* a stop was just declined for an entry stopped 90.5 s earlier
C14_Witness ==
    /\ refused = "stop"
    /\ Stopped
    /\ currentEntry[1].duration = 90
    /\ now = currentEntry[1].endTime.v + clock(90500)

\* C15: a duration edit of the staged entry acts on a Stopped session only: it
\* sets editedDuration to hours*3600 + minutes*60 + seconds (for numeric
\* fields), leaves the other fields of the staged entry, the durable list and
\* the projects as they are, and the session stays Stopped; no step changes
\* editedDuration of a Running entry, and no step but the restore at mount
\* turns Idle into Stopped.
C15_Value(field) ==
    CASE field = "0" -> 0
      [] field = "1" -> 1
      [] field = "2" -> 2
      [] field = "30" -> 30

C15_Numeric(in) == \A k \in 1..3 : in[k] \in {"0", "1", "2", "30"}

C15_EditStep ==
    /\ \A in \in EditInputs :
          (handleEditTime(in) /\ C15_Numeric(in)) =>
              /\ Stopped
              /\ currentEntry' # None
              /\ ~currentEntry'[1].isRunning
              /\ currentEntry'[1].editedDuration
                    = Num(C15_Value(in[1]) * 3600 + C15_Value(in[2]) * 60 + C15_Value(in[3]))
              /\ [currentEntry'[1] EXCEPT !.editedDuration = currentEntry[1].editedDuration]
                    = currentEntry[1]
              /\ timeEntries' = timeEntries
              /\ projects' = projects
    /\ (Running /\ currentEntry' # None) =>
          currentEntry'[1].editedDuration = currentEntry[1].editedDuration
    /\ (Idle /\ phase = "ready" /\ currentEntry' # None) => currentEntry'[1].isRunning

C15_EditOnlyWhenStopped == [][C15_EditStep]_vars

\* stopped after 90 s, then the staged entry was edited to 0:02:00
C15_Witness ==
    /\ phase = "ready"
    /\ Stopped
    /\ refused = ""
    /\ currentEntry[1].duration = 90
    /\ currentEntry[1].editedDuration = Num(120)
    /\ currentTime = 120

\* C16: a start from Stopped replaces the staged entry by a fresh Running one
\* and leaves the durable list alone, in memory and persisted; the replaced
\* entry (named by its id, when the id is its alone) is in no later state an
\* entry of the durable list, persisted or not, nor the current entry again.
C16_StartStep ==
    (handleStart /\ Stopped /\ currentEntry' # currentEntry) =>
        /\ timeEntries' = timeEntries
        /\ store'.entries = store.entries
        /\ currentEntry'[1].isRunning
        /\ currentEntry'[1].duration = 0
        /\ store'.current = Some(currentEntry'[1])

C16_NeverCommitted ==
    \A id \in abandoned :
        /\ \A k \in 1..Len(timeEntries) : timeEntries[k].id # id
        /\ store.entries # None =>
              \A k \in 1..Len(store.entries[1]) : store.entries[1][k].id # id
        /\ currentEntry # None => currentEntry[1].id # id
        /\ store.current # None => store.current[1].id # id

C16_DiscardOnStart == [][C16_StartStep]_vars /\ []C16_NeverCommitted

\* a staged entry was replaced by a start, and the session that followed was saved
C16_Witness ==
    /\ phase = "ready"
    /\ abandoned # {}
    /\ Idle
    /\ Len(timeEntries) = 1
    /\ \A id \in abandoned : id < timeEntries[1].id

\* C17: updateProject and deleteProject with an id no project has, and
\* updateTimeEntry and deleteTimeEntry with an id no entry has, leave the
\* project list, the durable list and the current entry as they are.
C17_NoProject(id) == \A k \in 1..Len(projects) : projects[k].id # id
C17_NoEntry(id) == \A k \in 1..Len(timeEntries) : timeEntries[k].id # id

C17_UnknownIdStep ==
    /\ \A id \in ProjectIdInputs, c \in ColorInputs :
          (callUpdateProject(id, "Design", c) /\ C17_NoProject(id)) => HomeUnchanged
    /\ \A id \in ProjectIdInputs :
          (callDeleteProject(id) /\ C17_NoProject(id)) => HomeUnchanged
    /\ \A id \in EntryIdInputs :
          (callUpdateTimeEntry(id, Num(120)) /\ C17_NoEntry(id)) => HomeUnchanged
    /\ \A id \in EntryIdInputs :
          (callDeleteTimeEntry(id) /\ C17_NoEntry(id)) => HomeUnchanged

C17_UnknownIdsIgnored == [][C17_UnknownIdStep]_vars

\* C18: in a duration edit of the staged entry or of a history row a field
\* that is not a number counts as zero, so the stored editedDuration is the
\* integer sum of the numeric components.
C18_Value(field) == IF field \in {"0", "1", "2", "30"} THEN C15_Value(field) ELSE 0

C18_Sum(in) == C18_Value(in[1]) * 3600 + C18_Value(in[2]) * 60 + C18_Value(in[3])

C18_EditStep ==
    \A in \in EditInputs :
        /\ handleEditTime(in) => currentEntry'[1].editedDuration = Num(C18_Sum(in))
        /\ \A i \in RowInputs :
              handleUpdateEntry(i, in) =>
                  \A k \in 1..Len(timeEntries) :
                      timeEntries[k].id = shownPage[i].id
                          => timeEntries'[k].editedDuration = Num(C18_Sum(in))

C18_NonNumericIsZero == [][C18_EditStep]_vars

\* C19: an add with a name that is empty after trimming changes nothing; any
\* other add appends one project with the trimmed name and an id that no
\* project of the list has, so the ids of the list are pairwise distinct.
C19_AddStep ==
    \A n \in NameInputs, c \in ColorInputs :
        handleAddProject(n, c) =>
            IF trim(n) = ""
            THEN HomeUnchanged
            ELSE /\ Len(projects') = Len(projects) + 1
                 /\ SubSeq(projects', 1, Len(projects)) = projects
                 /\ Last(projects').name = trim(n)
                 /\ Last(projects').color = c
                 /\ \A k \in 1..Len(projects) : projects[k].id # Last(projects').id

C19_IdsDistinct ==
    \A i, j \in 1..Len(projects) : i # j => projects[i].id # projects[j].id

C19_AddUniqueIds == [][C19_AddStep]_vars /\ []C19_IdsDistinct

\* C20: the entries of a deleted project stay in the durable list, and the
\* name a history row shows for an entry whose projectId no project has is
\* "Deleted Project".
C20_DeletedProjectLabel ==
    phase = "ready" =>
        \A i \in 1..Len(shownPage) :
            findProject(projects, shownPage[i].projectId) = None
                => rowProjectName(shownPage[i]) = "Deleted Project"

\* the entries of a list on one date, in one week, under one project name
onDate(es, d) == pick(es, {k \in 1..Len(es) : es[k].date = d})
inWeek(es, w) == pick(es, {k \in 1..Len(es) : es[k].date - ((es[k].date + 4) % 7) = w})
ofName(es, name) == pick(es, {k \in 1..Len(es) : es[k].projectName = name})

\* the n greatest members of a set of numbers
mostRecent(S, n) == {d \in S : Cardinality({x \in S : x > d}) < n}

\* the members of a set of numbers in ascending order
RECURSIVE ascending(_)
ascending(S) ==
    IF S = {} THEN << >>
    ELSE LET m == CHOOSE x \in S : \A y \in S : y <= x
         IN  Append(ascending(S \ {m}), m)

RECURSIVE sumOf(_)
sumOf(s) == IF s = << >> THEN 0 ELSE sumOf(SubSeq(s, 1, Len(s) - 1)) + s[Len(s)]

\* C21: the per-day series has one bucket per distinct date (the 30 most
\* recent dates when there are more), in ascending date order; a bucket's
\* hours is the sum of the effective durations of the entries of its date,
\* and its value for a project name is that sum over the entries of that
\* name on that date.
C21_DailySeries ==
    LET series == dailyData(timeEntries)
        dates == {timeEntries[k].date : k \in 1..Len(timeEntries)}
    IN  phase = "ready" =>
            /\ {series[i]["date"].v : i \in 1..Len(series)} = mostRecent(dates, 30)
            /\ Len(series) = Cardinality(mostRecent(dates, 30))
            /\ \A i, j \in 1..Len(series) :
                  i < j => series[i]["date"].v < series[j]["date"].v
            /\ \A i \in 1..Len(series) :
                  LET day == onDate(timeEntries, series[i]["date"].v)
                  IN  /\ series[i]["hours"] = Num(specTotal(day))
                      /\ \A k \in 1..Len(day) :
                            /\ day[k].projectName \in DOMAIN series[i]
                            /\ series[i][day[k].projectName]
                                  = Num(specTotal(ofName(day, day[k].projectName)))

\* C22: the per-project series has one bucket per distinct projectName, with
\* the sum of the effective durations and the count of the entries of that
\* name, ordered by hours descending; the counts add up to the number of
\* entries and the hours to the overall total.
C22_ProjectSeries ==
    LET series == projectData(timeEntries, projects)
        names == {timeEntries[k].projectName : k \in 1..Len(timeEntries)}
    IN  phase = "ready" =>
            /\ {series[i].name : i \in 1..Len(series)} = names
            /\ Len(series) = Cardinality(names)
            /\ \A i \in 1..Len(series) :
                  /\ series[i].hours = specTotal(ofName(timeEntries, series[i].name))
                  /\ series[i].entries = Len(ofName(timeEntries, series[i].name))
            /\ \A i, j \in 1..Len(series) : i < j => series[i].hours >= series[j].hours
            /\ sumOf([i \in 1..Len(series) |-> series[i].entries]) = Len(timeEntries)
            /\ sumOf([i \in 1..Len(series) |-> series[i].hours]) = specTotal(timeEntries)

\* C23: the per-week series has one bucket per Sunday-starting week holding
\* an entry, of the 8 chronologically most recent weeks, in ascending
\* chronological order; a bucket's hours is the sum of the effective
\* durations of the entries of its week.
C23_WeeklySeries ==
    LET series == weeklyData(timeEntries)
        weeks == {startOfWeek(timeEntries[k].date) : k \in 1..Len(timeEntries)}
        shown == ascending(mostRecent(weeks, 8))
    IN  phase = "ready" =>
            /\ Len(series) = Len(shown)
            /\ \A i \in 1..Len(series) :
                  /\ series[i].week = toLocaleDateString(shown[i])
                  /\ series[i].hours = specTotal(inWeek(timeEntries, shown[i]))

\* C24: the filtered view is ordered by date, newest first, and entries of one
\* date keep the order they have in the durable list; every entry of the view
\* is an entry of the durable list, unaltered and shown once; a change of
\* filter or page leaves the durable list as it is.
C24_Position(e) == CHOOSE k \in 1..Len(timeEntries) : timeEntries[k].id = e.id

C24_Ordered ==
    /\ \A i \in 1..Len(shownFiltered) :
          /\ \E k \in 1..Len(timeEntries) : timeEntries[k].id = shownFiltered[i].id
          /\ timeEntries[C24_Position(shownFiltered[i])] = shownFiltered[i]
    /\ \A i, j \in 1..Len(shownFiltered) :
          i < j =>
              \/ shownFiltered[i].date > shownFiltered[j].date
              \/ /\ shownFiltered[i].date = shownFiltered[j].date
                 /\ C24_Position(shownFiltered[i]) < C24_Position(shownFiltered[j])

C24_ViewStep ==
    (currentPage' # currentPage \/ filterProject' # filterProject
        \/ filterDateFrom' # filterDateFrom \/ filterDateTo' # filterDateTo)
            => (timeEntries' = timeEntries /\ store' = store)

C24_SortStable == [][C24_ViewStep]_vars /\ []C24_Ordered

\* a filtered view of several dates in which two entries share the newest date
C24_Witness ==
    /\ filterProject # None
    /\ Len(shownFiltered) >= 5
    /\ shownFiltered[1].date = shownFiltered[2].date
    /\ shownFiltered[1].date > shownFiltered[Len(shownFiltered)].date
    /\ timeEntries[1].date < shownFiltered[1].date

\* C25: every durable entry whose projectId is the id of a project of the list
\* carries that project's name as projectName.
C25_NamesConsistent ==
    phase = "ready" =>
        \A k \in 1..Len(timeEntries), i \in 1..Len(projects) :
            timeEntries[k].projectId = projects[i].id
                => timeEntries[k].projectName = projects[i].name

\* C26: in the history view 1 <= currentPage <= max(1, totalPages), so the
\* page shown of a non-empty filtered list is not empty.
C26_PageInRange ==
    phase = "ready" =>
        /\ 1 <= currentPage
        /\ currentPage <= (IF totalPages(shownFiltered) > 1
                            THEN totalPages(shownFiltered) ELSE 1)
        /\ shownFiltered # << >> => shownPage # << >>

\* C27: a running current entry has no end time, duration 0 and no
\* editedDuration; a stopped current entry and every durable entry has an end
\* time and duration = the whole seconds from startTime to endTime.
C27_Closed(e) ==
    /\ ~e.isRunning
    /\ IsNum(e.endTime)
    /\ e.duration * Second <= e.endTime.v - e.startTime
    /\ (e.duration + 1) * Second > e.endTime.v - e.startTime

C27_Open(e) ==
    /\ e.isRunning
    /\ e.endTime = JsNull
    /\ e.duration = 0
    /\ e.editedDuration = Undefined

C27_WellFormed ==
    /\ currentEntry # None =>
          IF currentEntry[1].isRunning
          THEN C27_Open(currentEntry[1]) ELSE C27_Closed(currentEntry[1])
    /\ \A k \in 1..Len(timeEntries) : C27_Closed(timeEntries[k])
    /\ store.current # None =>
          IF store.current[1].isRunning
          THEN C27_Open(store.current[1]) ELSE C27_Closed(store.current[1])
    /\ store.entries # None =>
          \A k \in 1..Len(store.entries[1]) : C27_Closed(store.entries[1][k])

\* an edited entry of 90 s is in the durable list and the next session is running
C27_Witness ==
    /\ phase = "ready"
    /\ Running
    /\ now > currentEntry[1].startTime
    /\ \E k \in 1..Len(timeEntries) :
          /\ timeEntries[k].duration = 90
          /\ timeEntries[k].editedDuration = Num(0)

\* C28: while the application mounts, a slot that was present when the load
\* effect read it holds that value at every step.
C28_MountKeepsSlots ==
    phase \in {"loaded", "flushed"} =>
        /\ saved.projects # None => store.projects = saved.projects
        /\ saved.entries # None => store.entries = saved.entries
        /\ saved.current # None => store.current = saved.current

====
